---- MODULE Spec2Model ----
(***************************************************************************)
(* FileProcessingSagaWorkflow (temporal/samples/workflows.py) and the      *)
(* activities it calls (temporal/samples/activities.py), as a state        *)
(* machine.  One step of the model is one attempt of one activity, with    *)
(* everything the workflow does between that attempt's end and the next    *)
(* await.                                                                  *)
(*                                                                         *)
(* workflow.execute_activity is the durable-execution host's: an attempt   *)
(* ends with a result, with an exception raised by the activity's code,    *)
(* with a start-to-close timeout, or with a failure the host does not      *)
(* retry (the call was cancelled, the failure is of a non-retryable kind). *)
(* Exceptions and timeouts are retried while the retry policy allows; a    *)
(* call without a retry policy has no attempt ceiling.  A timeout can      *)
(* follow the activity's work as well as precede it.  A cancellation of    *)
(* the run (client.py, cancel_workflow) ends the call being awaited with   *)
(* an ActivityError; the calls the workflow makes afterwards run as usual. *)
(***************************************************************************)
EXTENDS Integers, Sequences, FiniteSets, TLC

VARIABLES
    input_data,          \* the saga's input: file_url, filename
    served,              \* the body the download URL serves
    pc,                  \* where FileProcessingSagaWorkflow.run stands
    stage,               \* the forward stage being awaited (0: none)
    attempts,            \* failed attempts of the stage or compensation awaited
    tried,               \* how each attempt of the stage being awaited ended
    processing_state,    \* self.processing_state
    compensation_steps,  \* self.compensation_steps
    unwind_pos,          \* _execute_compensation: index of the entry being run
    caught,              \* the exception caught by run's except clause
    outcome,             \* what run returned or raised
    files,               \* the working directories: path -> body
    uploads,             \* the upload service: ids it holds
    issued,              \* upload ids the service has issued
    events,              \* the processing log written by log_processing_event
    cancel,              \* the run's cancellation: none, requested, delivered
    other,               \* another run given the same filename: where it stands
    dispatched,          \* history: forward stages in the order they were started
    returned,            \* history: forward stages whose activity returned success
    comp_calls,          \* history: compensation calls that ended, with how
    last_failed,         \* history: the forward stage whose failure reached run
    invoked              \* history: calls made outside a run, with their results

vars == <<input_data, served, pc, stage, attempts, tried, processing_state,
          compensation_steps, unwind_pos, caught, outcome, files, uploads,
          issued, events, cancel, other, dispatched, returned, comp_calls,
          last_failed, invoked>>

----------------------------------------------------------------------------
(* Bounds *)

\* Records in the served body: 0 .. MaxRecords.
MaxRecords == 1

\* Attempts of a call without an attempt ceiling are counted up to here.
MaxCounted == 3

\* Event writes whose result is lost are followed up to this many entries.
MaxEvents == 2

\* Upload ids the service has issued when compensations are invoked alone.
MaxUploads == 2

\* Invocations made when compensations are invoked alone.
MaxInvocations == 2

\* Requests made of the upload service when it is followed alone.
MaxRequests == 4

\* Elements of a JSON list, keys of a JSON object, in a file parsed alone.
MaxItems == 2

\* Characters of a CSV or text file parsed alone.
MaxChars == 5

\* Paths in the list given to cleanup_temp_files when it is called alone.
MaxPaths == 2

----------------------------------------------------------------------------
(* Values *)

WorkflowId == "wf"

NoValue == [success |-> FALSE]

NoError == [type |-> "none", msg |-> "", of |-> "none"]

Min(a, b) == IF a < b THEN a ELSE b

RECURSIVE Reverse(_)
Reverse(s) == IF s = <<>> THEN <<>> ELSE Append(Reverse(Tail(s)), Head(s))

\* d[k] = v as a Python dict assignment
DictSet(d, k, v) == [x \in (DOMAIN d) \cup {k} |-> IF x = k THEN v ELSE d[x]]

\* {file_url, filename}; the filename as os.path.splitext sees it
Filenames == { [stem |-> "posts", ext |-> ".json"],
               [stem |-> "posts", ext |-> ".bin"] }

\* The empty filename: f"{base_path}/input/" is the input directory itself.
EmptyName == [stem |-> "", ext |-> ""]

\* A file's content is the sequence of its characters.  JSON texts are
\* written without separators: a list is "[" elements "]", with "o" for an
\* element that is an object and "1" for one that is a number; an object is
\* "{" members "}", with "k" for each key, its value after it.
Repeat(c, n) == [i \in 1..n |-> c]

JsonList(elements) == <<"[">> \o elements \o <<"]">>

JsonObject(members) == <<"{">> \o members \o <<"}">>

\* A served body: the empty body, a body that is not JSON, and the JSON
\* lists of 0..MaxRecords objects.
Bodies == { <<>>, <<"a">> } \cup
          { JsonList(Repeat("o", r)) : r \in 0..MaxRecords }

\* What the host makes of an attempt, beside the activity's own code.
Faults == {"none", "timeout", "nonretryable"}

HttpStatuses == {200, 500}

----------------------------------------------------------------------------
(* The working directories and the values activities exchange *)

EmptyDict == [x \in {} |-> NoValue]

\* f"{self.base_path}/input/{filename}"
InputPath(filename) == [dir |-> "input", name |-> filename]

\* f"{self.base_path}/processed/{output_filename}"
ProcessedPath(filename) == [dir |-> "processed", name |-> filename]

\* f"{self.base_path}/backup/{filename}_{timestamp}": the suffix is the
\* run's clock reading, one per run here
BackupPath(filename) == [dir |-> "backup", name |-> filename]

\* f"processed_{workflow.info().workflow_id}.json"
OutputFilename == [stem |-> "processed_" \o WorkflowId, ext |-> ".json"]

\* os.path.splitext(file_path)[1].lower()
Extension(path) == path.name.ext

ValidExtensions == {".json", ".csv", ".txt", ".xml"}

\* The state activities act on.
World == [files |-> files, uploads |-> uploads, issued |-> issued,
          events |-> events]

\* An attempt that returned v and left the world as w.
Ok(v, w) == [status |-> "ok", msg |-> "", value |-> v, world |-> w]

\* An attempt whose code raised Exception(m); every raise of the activities
\* comes before the attempt has changed anything.
Raise(m) == [status |-> "exception", msg |-> m, value |-> NoValue,
             world |-> World]

\* What the caller of an activity invoked directly gets.
Returned(r) ==
    IF r.status = "ok" THEN r.value ELSE [success |-> FALSE, raised |-> r.msg]

\* The faults an attempt can meet.  A requested cancellation ends the call
\* being awaited, whether or not the activity had done its work by then;
\* otherwise the attempt may also time out after the activity did its work
\* (may_lose: the model follows that case here).
AttemptFaults(may_lose) ==
    IF cancel = "requested" THEN {"cancelled", "cancelled_late"}
    ELSE Faults \cup (IF may_lose THEN {"lost"} ELSE {})

\* What an attempt draws from its surroundings: the status of the request
\* it makes, for the calls that make one, and the files os.remove fails on,
\* for the calls that remove files.
StatusesSeen(call) ==
    IF call \in {"download", "upload", "notification", "rollback_upload"}
    THEN HttpStatuses ELSE {200}

StuckFiles(call) ==
    IF call \in {"cleanup", "cleanup_download", "cleanup_saved"}
    THEN SUBSET DOMAIN files ELSE {{}}

\* The attempt as the host reports it: a timeout, a cancellation or a
\* failure the host does not retry takes the place of the code's own result.
Attempt(fault, r) ==
    CASE fault = "none" -> r
      [] fault = "lost" ->
            [status |-> "timeout", msg |-> "timeout", value |-> NoValue,
             world |-> r.world]
      [] fault = "cancelled" ->
            [status |-> "cancelled", msg |-> "cancelled", value |-> NoValue,
             world |-> World]
      [] fault = "cancelled_late" ->
            [status |-> "cancelled", msg |-> "cancelled", value |-> NoValue,
             world |-> r.world]
      [] OTHER ->
            [status |-> fault, msg |-> fault, value |-> NoValue, world |-> World]

\* The cancellation, once requested, is delivered to the call being awaited.
CancelSeen == cancel' = IF cancel = "requested" THEN "delivered" ELSE cancel

----------------------------------------------------------------------------
(* sample_server.py: the upload service *)

\* Mutant of handle_upload: the id is the number of uploads held, plus one.
handle_upload_numbered ==
    [status |-> 200, upload_id |-> Cardinality(uploads) + 1,
     uploads |-> uploads \cup {Cardinality(uploads) + 1}, issued |-> issued + 1]

\* POST /upload: a fresh id, registered; [status, upload_id, uploads, issued]
handle_upload ==
    [status |-> 200, upload_id |-> issued + 1,
     uploads |-> uploads \cup {issued + 1}, issued |-> issued + 1]

\* DELETE /rollback/{upload_id}
handle_rollback(upload_id) ==
    IF upload_id \notin uploads
    THEN [status |-> 404, uploads |-> uploads]
    ELSE [status |-> 200, uploads |-> uploads \ {upload_id}]

----------------------------------------------------------------------------
(* activities.py.  http: the status the request ends with when it does not  *)
(* reach the service's handler (200: it reaches the handler).               *)

download_file(url, filename, http) ==
    IF url = "" THEN Raise("Invalid URL")
    ELSE IF http = 200 /\ filename = EmptyName THEN Raise("Is a directory")
    ELSE IF http = 200
    THEN Ok([success |-> TRUE, file_path |-> InputPath(filename),
             size |-> Len(served)],
            [World EXCEPT !.files = DictSet(files, InputPath(filename), served)])
    ELSE Raise("Failed to download file")

validate_file_format(file_path) ==
    IF file_path \notin DOMAIN files THEN Raise("File does not exist")
    ELSE IF Len(files[file_path]) = 0 THEN Raise("File is empty")
    ELSE IF Extension(file_path) \notin ValidExtensions
         THEN Raise("Unsupported file format")
    ELSE Ok([success |-> TRUE, file_size |-> Len(files[file_path]),
             file_type |-> Extension(file_path), valid |-> TRUE], World)

\* json.loads(content): whether the text is JSON, whether the value is a
\* list, and what iterating over the value yields, each element by its type
\* (a list yields its elements, a dict its keys).
json_loads(content) ==
    LET n == Len(content)
        inner == SubSeq(content, 2, n - 1)
    IN  IF /\ n >= 2 /\ content[1] = "[" /\ content[n] = "]"
           /\ \A i \in 1..Len(inner) : inner[i] \in {"o", "1"}
        THEN [valid |-> TRUE, is_list |-> TRUE,
              yields |-> [i \in 1..Len(inner) |->
                             IF inner[i] = "o" THEN "dict" ELSE "int"]]
        ELSE IF /\ n >= 2 /\ content[1] = "{" /\ content[n] = "}"
                /\ \A i \in 1..Len(inner) : inner[i] \in {"k", "o", "1"}
        THEN [valid |-> TRUE, is_list |-> FALSE,
              yields |-> Repeat("str",
                            Len(SelectSeq(inner, LAMBDA c : c = "k")))]
        ELSE [valid |-> FALSE, is_list |-> FALSE, yields |-> <<>>]

\* content.split(sep): the pieces between the separators
RECURSIVE split(_, _)
split(content, sep) ==
    IF \A i \in 1..Len(content) : content[i] # sep THEN <<content>>
    ELSE LET k == CHOOSE i \in 1..Len(content) :
                     /\ content[i] = sep
                     /\ \A j \in 1..(i - 1) : content[j] # sep
         IN  <<SubSeq(content, 1, k - 1)>>
                 \o split(SubSeq(content, k + 1, Len(content)), sep)

\* f.readlines(): the lines, a last line without its newline included
readlines(content) ==
    LET pieces == split(content, "\n") IN
    IF pieces[Len(pieces)] = <<>> THEN SubSeq(pieces, 1, Len(pieces) - 1)
    ELSE pieces

\* line.strip(): the line without the whitespace at its ends
strip(line) ==
    LET inked == { i \in 1..Len(line) : line[i] \notin {" ", "\n"} } IN
    IF inked = {} THEN <<>>
    ELSE SubSeq(line, CHOOSE i \in inked : \A j \in inked : i <= j,
                      CHOOSE i \in inked : \A j \in inked : i >= j)

\* parsed_data is kept as what iterating over it yields, each element by
\* its type: the elements of the JSON list or the keys of the JSON object,
\* the rows of the CSV file, the characters of the text.
parse_file_content(file_path) ==
    IF file_path \notin DOMAIN files THEN Raise("No such file")
    ELSE LET content == files[file_path] IN
         IF Extension(file_path) = ".json"
         THEN LET data == json_loads(content) IN
              IF ~data.valid THEN Raise("JSONDecodeError")
              ELSE Ok([success |-> TRUE,
                       records_count |-> IF data.is_list THEN Len(data.yields)
                                         ELSE 1,
                       parsed_data |-> data.yields, file_type |-> "json"],
                      World)
         ELSE IF Extension(file_path) = ".csv"
         THEN LET records == SelectSeq(readlines(content),
                                       LAMBDA line : strip(line) # <<>>)
              IN  Ok([success |-> TRUE, records_count |-> Len(records),
                      parsed_data |-> Repeat("list", Len(records)),
                      file_type |-> "csv"], World)
         ELSE Ok([success |-> TRUE,
                  records_count |-> Len(split(content, "\n")),
                  parsed_data |-> Repeat("str", Len(content)),
                  file_type |-> "text"], World)

backup_file(file_path) ==
    IF file_path \notin DOMAIN files THEN Raise("No such file")
    ELSE Ok([success |-> TRUE, original_path |-> file_path,
             backup_path |-> BackupPath(file_path.name),
             backup_size |-> Len(files[file_path])],
            [World EXCEPT !.files =
                DictSet(files, BackupPath(file_path.name), files[file_path])])

\* processed_records is kept as the types of the records' data.  The json
\* branch makes a record of each element that is a dict, the other branch
\* of every element.
process_data_records(parsed_data) ==
    LET processed_records ==
            IF parsed_data.file_type = "json"
            THEN SelectSeq(parsed_data.parsed_data, LAMBDA record : record = "dict")
            ELSE parsed_data.parsed_data
    IN  Ok([success |-> TRUE, processed_count |-> Len(processed_records),
            processed_records |-> processed_records], World)

\* json.dumps(processed_data): an object of three keys, the last one's
\* value holding the processed records
json_dumps(processed_data) ==
    JsonObject(<<"k", "k", "k">> \o Repeat("o", processed_data.processed_count))

save_processed_data(processed_data, output_filename) ==
    LET output_path == ProcessedPath(output_filename)
        content == json_dumps(processed_data)
    IN  Ok([success |-> TRUE, output_path |-> output_path,
            output_size |-> Len(content),
            records_saved |-> processed_data.processed_count],
           [World EXCEPT !.files = DictSet(files, output_path, content)])

upload_to_external_service(file_path, http) ==
    IF file_path \notin DOMAIN files THEN Raise("No such file")
    ELSE IF http = 200
    THEN LET resp == handle_upload IN
         Ok([success |-> TRUE, upload_id |-> resp.upload_id],
            [World EXCEPT !.uploads = resp.uploads, !.issued = resp.issued])
    ELSE Raise("Upload failed")

send_notification(message, http) ==
    IF http = 200
    THEN Ok([success |-> TRUE, notification_sent |-> TRUE,
             response_status |-> http], World)
    ELSE Raise("Notification failed")

\* stuck: the paths whose os.remove raises
RECURSIVE CleanupLoop(_, _, _)
CleanupLoop(file_paths, stuck, acc) ==
    IF file_paths = <<>> THEN acc
    ELSE LET p == Head(file_paths) IN
         CleanupLoop(Tail(file_paths), stuck,
            IF p \notin DOMAIN acc.files THEN acc
            ELSE IF p \in stuck
                 THEN [acc EXCEPT !.failed_files = Append(@, p)]
                 ELSE [acc EXCEPT
                         !.files = [q \in (DOMAIN acc.files) \ {p} |-> acc.files[q]],
                         !.cleaned_files = Append(@, p)])

\* Mutant of cleanup_temp_files: a removal that failed fails the activity.
cleanup_temp_files_strict(file_paths, stuck) ==
    LET done == CleanupLoop(file_paths, stuck,
                    [files |-> files, cleaned_files |-> <<>>,
                     failed_files |-> <<>>])
    IN  IF done.failed_files # <<>> THEN Raise("Cleanup failed")
        ELSE Ok([success |-> TRUE, cleaned_files |-> done.cleaned_files,
                 failed_files |-> done.failed_files,
                 total_cleaned |-> Len(done.cleaned_files)],
                [World EXCEPT !.files = done.files])

cleanup_temp_files(file_paths, stuck) ==
    LET done == CleanupLoop(file_paths, stuck,
                    [files |-> files, cleaned_files |-> <<>>,
                     failed_files |-> <<>>])
    IN  Ok([success |-> TRUE, cleaned_files |-> done.cleaned_files,
            failed_files |-> done.failed_files,
            total_cleaned |-> Len(done.cleaned_files)],
           [World EXCEPT !.files = done.files])

log_processing_event(event_data) ==
    Ok([success |-> TRUE, log_file |-> "processing.log"],
       [World EXCEPT !.events =
           Append(events, [event |-> event_data.event_type, data |-> event_data])])

rollback_upload(upload_id, http) ==
    LET resp == IF http = 200 THEN handle_rollback(upload_id)
                ELSE [status |-> http, uploads |-> uploads]
    IN  IF resp.status = 200
        THEN Ok([success |-> TRUE, rollback_id |-> upload_id,
                 rollback_status |-> "completed"],
                [World EXCEPT !.uploads = resp.uploads])
        ELSE Raise("Rollback failed")

validate_processing_result(processed_data) ==
    IF ~processed_data.success THEN Raise("Processing was not successful")
    ELSE IF processed_data.processed_count = 0
         THEN Raise("No records were processed")
    ELSE Ok([success |-> TRUE, validation_passed |-> TRUE,
             records_validated |-> processed_data.processed_count], World)

----------------------------------------------------------------------------
(* workflows.py: FileProcessingSagaWorkflow *)

\* Mutant of StageOrder: the result is validated before it is uploaded.
StageOrderValidateBeforeUpload ==
    << "download", "validation", "backup", "parsing", "processing",
       "saving", "validation_final", "upload", "notification", "cleanup" >>

\* Mutant of StageOrder: the result is validated as soon as the records are
\* processed, before anything is saved or uploaded.
StageOrderValidateAfterProcess ==
    << "download", "validation", "backup", "parsing", "processing",
       "validation_final", "saving", "upload", "notification", "cleanup" >>

\* run, lines 22-31: the forward stages in the order run awaits them
StageOrder ==
    << "download", "validation", "backup", "parsing", "processing",
       "saving", "upload", "validation_final", "notification", "cleanup" >>

Stages == { StageOrder[i] : i \in 1..Len(StageOrder) }

StageIndex(s) == CHOOSE i \in 1..Len(StageOrder) : StageOrder[i] = s

\* Mutant of ResultKey: the final validation records under the key of the
\* format validation.
ResultKeyFinalOverwrites(s) ==
    IF s = "validation_final" THEN "validation_result" ELSE s \o "_result"

\* The key a stage's result is recorded under in processing_state.
ResultKey(s) ==
    IF s = "validation_final" THEN "validation_final" ELSE s \o "_result"

\* RetryPolicy(maximum_attempts=...) of each step
MaxAttempts(s) ==
    CASE s = "download"         -> 3
      [] s = "validation"       -> 2
      [] s = "backup"           -> 3
      [] s = "parsing"          -> 2
      [] s = "processing"       -> 3
      [] s = "saving"           -> 3
      [] s = "upload"           -> 3
      [] s = "validation_final" -> 2
      [] s = "notification"     -> 3
      [] s = "cleanup"          -> 2

\* execute_activity without a retry_policy: no attempt ceiling
Unlimited == 0

\* Mutant of ShouldRetry: the ceiling is compared off by one.
ShouldRetryOffByOne(status, made, max) ==
    /\ status \in {"exception", "timeout"}
    /\ (max = Unlimited \/ made <= max)

\* Whether the host makes another attempt after `made` attempts, the last
\* of which ended with `status`.  No step names a non-retryable error type,
\* so every exception an activity raises is retried like a timeout.
ShouldRetry(status, made, max) ==
    /\ status \in {"exception", "timeout"}
    /\ (max = Unlimited \/ made < max)

\* The exception execute_activity raises for a failed call.
ActivityError(activity, r) ==
    [type |-> "ActivityError", msg |-> r.msg, of |-> activity]

\* Mutant of Pushes: the save step registers nothing.
PushesWithoutSaved(s, result) ==
    CASE s = "download" -> << <<"cleanup_download", result.file_path>> >>
      [] s = "upload"   -> << <<"rollback_upload", result.upload_id>> >>
      [] OTHER          -> << >>

\* Mutant of Pushes: the upload's rollback is registered before its cleanup
\* of the saved file, both by the upload step.
PushesRollbackBeforeSaved(s, result) ==
    CASE s = "download" -> << <<"cleanup_download", result.file_path>> >>
      [] s = "upload"   ->
            << <<"rollback_upload", result.upload_id>>,
               <<"cleanup_saved",
                 processing_state["saving_result"].output_path>> >>
      [] OTHER          -> << >>

\* Mutant of Pushes: the format validation registers a cleanup too.
PushesOnValidate(s, result) ==
    CASE s = "download" -> << <<"cleanup_download", result.file_path>> >>
      [] s = "validation" ->
            << <<"cleanup_download", processing_state["download_result"].file_path>> >>
      [] s = "saving"   -> << <<"cleanup_saved", result.output_path>> >>
      [] s = "upload"   -> << <<"rollback_upload", result.upload_id>> >>
      [] OTHER          -> << >>

\* The compensation entries a stage appends once its activity has returned.
Pushes(s, result) ==
    CASE s = "download" -> << <<"cleanup_download", result.file_path>> >>
      [] s = "saving"   -> << <<"cleanup_saved", result.output_path>> >>
      [] s = "upload"   -> << <<"rollback_upload", result.upload_id>> >>
      [] OTHER          -> << >>

\* Mutant of UnwindOrder: the stack is walked in registration order.
UnwindOrderForward(steps) == steps

\* reversed(self.compensation_steps)
UnwindOrder(steps) == Reverse(steps)

\* The attempt each step's execute_activity makes.
StageActivity(s, http, stuck) ==
    CASE s = "download" ->
            download_file(input_data.file_url, input_data.filename, http)
      [] s = "validation" ->
            validate_file_format(processing_state["download_result"].file_path)
      [] s = "backup" ->
            backup_file(processing_state["download_result"].file_path)
      [] s = "parsing" ->
            parse_file_content(processing_state["download_result"].file_path)
      [] s = "processing" ->
            process_data_records(processing_state["parsing_result"])
      [] s = "saving" ->
            save_processed_data(processing_state["processing_result"],
                                OutputFilename)
      [] s = "upload" ->
            upload_to_external_service(
                processing_state["saving_result"].output_path, http)
      [] s = "validation_final" ->
            validate_processing_result(processing_state["processing_result"])
      [] s = "notification" ->
            send_notification(processing_state["upload_result"].upload_id, http)
      [] s = "cleanup" ->
            cleanup_temp_files(
                <<processing_state["download_result"].file_path>>, stuck)

ApplyWorld(w) ==
    /\ files' = w.files
    /\ uploads' = w.uploads
    /\ issued' = w.issued
    /\ events' = w.events

\* Mutant of EnterExcept: the engine dispatches the failed stage again.
EnterExceptRedispatch(e) ==
    /\ caught' = e
    /\ pc' = "running"
    /\ unwind_pos' = 0
    /\ stage' = stage
    /\ attempts' = 0
    /\ tried' = <<>>

\* Mutant of EnterExcept: the failure event is logged first and the unwind
\* is left out.
EnterExceptLogFirst(e) ==
    /\ caught' = e
    /\ pc' = "log_failure"
    /\ unwind_pos' = 0
    /\ stage' = "none"
    /\ attempts' = 0
    /\ tried' = <<>>

\* run's except clause, entered with exception e: _execute_compensation
\* starts, or, the stack being empty, _log_failure_event does.
EnterExcept(e) ==
    /\ caught' = e
    /\ pc' = IF compensation_steps = <<>> THEN "log_failure" ELSE "compensating"
    /\ unwind_pos' = IF compensation_steps = <<>> THEN 0 ELSE 1
    /\ stage' = "none"
    /\ attempts' = 0
    /\ tried' = <<>>

\* Mutant of RaisedOutcome: the except clause ends without its raise, and
\* run returns None.
RaisedOutcomeSwallowed(e) ==
    [kind |-> "returned", status |-> "none", workflow_id |-> WorkflowId,
     results |-> EmptyDict, compensation_steps |-> <<>>, error |-> NoError]

\* What run ends with when exception e leaves it.
RaisedOutcome(e) ==
    [kind |-> "raised", status |-> "failed", workflow_id |-> WorkflowId,
     results |-> EmptyDict, compensation_steps |-> <<>>, error |-> e]

\* Mutant of ExceptCatches: a cancelled call's exception is not caught.
ExceptCatchesUnlessCancelled(e) ==
    e.type \in {"ActivityError", "KeyError"} /\ e.msg # "cancelled"

\* Whether run's `except Exception` clause catches e.  execute_activity
\* raises ActivityError, an Exception, for a cancelled call as for a failed
\* one; KeyError is an Exception too.
ExceptCatches(e) == e.type \in {"ActivityError", "KeyError"}

\* Exception e is raised inside run's try block: the except clause is
\* entered, or e leaves run at once.
RaisedInTry(e) ==
    IF ExceptCatches(e)
    THEN /\ EnterExcept(e)
         /\ UNCHANGED outcome
    ELSE /\ outcome' = RaisedOutcome(e)
         /\ pc' = "failed"
         /\ stage' = "none"
         /\ attempts' = 0
         /\ tried' = <<>>
         /\ UNCHANGED <<caught, unwind_pos>>

\* The step returns: its result is recorded, its compensation registered,
\* and run awaits the next step (after the last one, _log_success_event).
StageReturned(s, result) ==
    /\ processing_state' = DictSet(processing_state, ResultKey(s), result)
    /\ compensation_steps' = compensation_steps \o Pushes(s, result)
    /\ returned' = Append(returned, s)
    /\ attempts' = 0
    /\ tried' = <<>>
    /\ IF StageIndex(s) < Len(StageOrder)
       THEN /\ stage' = StageOrder[StageIndex(s) + 1]
            /\ dispatched' = Append(dispatched, StageOrder[StageIndex(s) + 1])
            /\ pc' = "running"
       ELSE /\ stage' = "none"
            /\ dispatched' = dispatched
            /\ pc' = "log_success"
    /\ UNCHANGED <<unwind_pos, caught, outcome, comp_calls, last_failed>>

\* Mutant of StageFailed: the failed call's value is recorded as the
\* stage's result.
StageFailedRecords(s, r) ==
    /\ RaisedInTry(ActivityError(s, r))
    /\ last_failed' = [stage |-> s, status |-> r.status, msg |-> r.msg,
                       attempts |-> attempts + 1,
                       tried |-> Append(tried, [status |-> r.status,
                                                msg |-> r.msg])]
    /\ processing_state' = DictSet(processing_state, ResultKey(s), r.value)
    /\ UNCHANGED <<compensation_steps, dispatched, returned, comp_calls>>

\* The step's execute_activity raises: the exception reaches run.
StageFailed(s, r) ==
    /\ RaisedInTry(ActivityError(s, r))
    /\ last_failed' = [stage |-> s, status |-> r.status, msg |-> r.msg,
                       attempts |-> attempts + 1,
                       tried |-> Append(tried, [status |-> r.status,
                                                msg |-> r.msg])]
    /\ UNCHANGED <<processing_state, compensation_steps, dispatched,
                   returned, comp_calls>>

\* One attempt of stage s's activity.
StageStep(s) ==
    /\ pc = "running"
    /\ stage = s
    /\ \E fault \in AttemptFaults(TRUE), http \in StatusesSeen(s),
          stuck \in StuckFiles(s) :
         LET r == Attempt(fault, StageActivity(s, http, stuck)) IN
         /\ ApplyWorld(r.world)
         /\ CancelSeen
         /\ IF r.status = "ok" THEN StageReturned(s, r.value)
            ELSE IF ShouldRetry(r.status, attempts + 1, MaxAttempts(s))
            THEN /\ attempts' = attempts + 1
                 /\ tried' = Append(tried, [status |-> r.status, msg |-> r.msg])
                 /\ UNCHANGED <<pc, stage, processing_state, compensation_steps,
                                unwind_pos, caught, outcome, dispatched,
                                returned, comp_calls, last_failed>>
            ELSE StageFailed(s, r)
    /\ UNCHANGED <<input_data, served, invoked, other>>

\* The KeyError of input_data[key], raised while _download_file_step builds
\* the arguments of its execute_activity call (lines 66-67).
KeyError(key) == [type |-> "KeyError", msg |-> key, of |-> "run"]

\* Mutant of Start: the download and the format validation are started
\* together.
StartTogether ==
    /\ pc = "pending"
    /\ processing_state' =
          DictSet(DictSet(processing_state, "workflow_id", WorkflowId),
                  "start_time", "now")
    /\ pc' = "running"
    /\ stage' = StageOrder[1]
    /\ dispatched' = <<StageOrder[1], StageOrder[2]>>
    /\ attempts' = 0
    /\ UNCHANGED <<input_data, served, invoked, tried, unwind_pos, caught, outcome,
                   compensation_steps, files, uploads, issued, events, cancel,
                   other, returned, comp_calls, last_failed>>

\* run, lines 19-22, up to the first await: the download is dispatched,
\* unless input_data lacks one of the two keys read for its arguments.
Start ==
    /\ pc = "pending"
    /\ processing_state' =
          DictSet(DictSet(processing_state, "workflow_id", WorkflowId),
                  "start_time", "now")
    /\ IF {"file_url", "filename"} \subseteq DOMAIN input_data
       THEN /\ pc' = "running"
            /\ stage' = StageOrder[1]
            /\ dispatched' = Append(dispatched, StageOrder[1])
            /\ attempts' = 0
            /\ UNCHANGED <<tried, unwind_pos, caught, outcome>>
       ELSE /\ RaisedInTry(KeyError(IF "file_url" \in DOMAIN input_data
                                    THEN "filename" ELSE "file_url"))
            /\ UNCHANGED dispatched
    /\ UNCHANGED <<input_data, served, invoked, compensation_steps, files, uploads,
                   issued, events, cancel, other, returned, comp_calls,
                   last_failed>>

_download_file_step == StageStep("download")

_validate_file_step == StageStep("validation")

_backup_file_step == StageStep("backup")

_parse_file_step == StageStep("parsing")

_process_data_step == StageStep("processing")

_save_data_step == StageStep("saving")

_upload_data_step == StageStep("upload")

_validate_result_step == StageStep("validation_final")

_send_notification_step == StageStep("notification")

_cleanup_step == StageStep("cleanup")

\* The activity a compensation entry stands for (lines 244-262).
CompensationActivity(step, http, stuck) ==
    CASE step[1] = "cleanup_download" -> cleanup_temp_files(<<step[2]>>, stuck)
      [] step[1] = "cleanup_saved"    -> cleanup_temp_files(<<step[2]>>, stuck)
      [] step[1] = "rollback_upload"  -> rollback_upload(step[2], http)

\* Mutant of NextUnwindPos: an entry whose call failed is called again.
NextUnwindPosRepeat(pos, status, n) == IF status = "ok" THEN pos + 1 ELSE pos

\* Mutant of NextUnwindPos: an entry's exception ends the loop.
NextUnwindPosAbort(pos, status, n) == IF status = "ok" THEN pos + 1 ELSE n + 1

\* The position the loop of _execute_compensation moves to once the entry at
\* pos has ended with `status`, among n entries (n + 1: the loop is over).
\* The except clause inside the loop swallows the entry's exception.
NextUnwindPos(pos, status, n) == pos + 1

\* Mutant of UnwindAdvance: once the loop is over the forward pass is
\* taken up again.
UnwindAdvanceResumes(status) ==
    LET next == NextUnwindPos(unwind_pos, status, Len(compensation_steps)) IN
    /\ attempts' = 0
    /\ IF next <= Len(compensation_steps)
       THEN /\ unwind_pos' = next
            /\ pc' = "compensating"
       ELSE /\ unwind_pos' = 0
            /\ pc' = "running"

\* The loop goes on to the next entry, or run goes on to _log_failure_event.
UnwindAdvance(status) ==
    LET next == NextUnwindPos(unwind_pos, status, Len(compensation_steps)) IN
    /\ attempts' = 0
    /\ IF next <= Len(compensation_steps)
       THEN /\ unwind_pos' = next
            /\ pc' = "compensating"
       ELSE /\ unwind_pos' = 0
            /\ pc' = "log_failure"

\* One attempt of the compensation entry the loop stands at.  After a
\* retryable failure the run is at `waiting` until the host's next attempt.
AwaitCompensation(waiting) ==
    /\ pc = "compensating"
    /\ LET step == UnwindOrder(compensation_steps)[unwind_pos] IN
       \E fault \in AttemptFaults(TRUE), http \in StatusesSeen(step[1]),
          stuck \in StuckFiles(step[1]) :
         LET r == Attempt(fault, CompensationActivity(step, http, stuck)) IN
         /\ ApplyWorld(r.world)
         /\ CancelSeen
         /\ IF r.status = "ok"
            THEN /\ comp_calls' = Append(comp_calls,
                        [type |-> step[1], data |-> step[2], result |-> "ok"])
                 /\ UnwindAdvance(r.status)
            ELSE IF ShouldRetry(r.status, attempts + 1, Unlimited)
            THEN /\ attempts' = Min(attempts + 1, MaxCounted)
                 /\ pc' = waiting
                 /\ UNCHANGED <<unwind_pos, comp_calls>>
            ELSE /\ comp_calls' = Append(comp_calls,
                        [type |-> step[1], data |-> step[2], result |-> "failed"])
                 /\ UnwindAdvance(r.status)
    /\ UNCHANGED <<input_data, served, invoked, stage, tried, processing_state,
                   compensation_steps, caught, outcome, other, dispatched,
                   returned, last_failed>>

\* _execute_compensation, the time between two attempts of a call left out.
_execute_compensation == AwaitCompensation("compensating")

\* The dict run returns (lines 35-49).
CompletedOutcome ==
    [kind |-> "returned", status |-> "completed", workflow_id |-> WorkflowId,
     results |-> [k \in { ResultKey(s) : s \in Stages } |-> processing_state[k]],
     compensation_steps |-> compensation_steps, error |-> NoError]

\* One attempt of the success event's log_processing_event; run then
\* returns, or the call's exception is caught by run's except clause.
AwaitSuccessEvent(waiting) ==
    /\ pc = "log_success"
    /\ \E fault \in AttemptFaults(Len(events) < MaxEvents) :
         LET event_data == [event_type |-> "saga_completed",
                            workflow_id |-> WorkflowId, status |-> "success",
                            processing_state |-> processing_state]
             r == Attempt(fault, log_processing_event(event_data))
         IN
         /\ ApplyWorld(r.world)
         /\ CancelSeen
         /\ IF r.status = "ok"
            THEN /\ outcome' = CompletedOutcome
                 /\ pc' = "completed"
                 /\ attempts' = 0
                 /\ UNCHANGED <<stage, tried, unwind_pos, caught>>
            ELSE IF ShouldRetry(r.status, attempts + 1, Unlimited)
            THEN /\ pc' = waiting
                 /\ UNCHANGED <<stage, attempts, tried, unwind_pos, caught,
                                outcome>>
            ELSE RaisedInTry(ActivityError("log_processing_event", r))
    /\ UNCHANGED <<input_data, served, invoked, processing_state, compensation_steps,
                   other, dispatched, returned, comp_calls, last_failed>>

_log_success_event == AwaitSuccessEvent("log_success")

\* The exception that leaves run's except clause: the bare raise re-raises
\* the caught one, unless _log_failure_event raised first.
Surfaced(e, log_status, log_error) ==
    IF log_status = "ok" THEN e ELSE log_error

\* One attempt of the failure event's log_processing_event; then run raises.
AwaitFailureEvent(waiting) ==
    /\ pc = "log_failure"
    /\ \E fault \in AttemptFaults(Len(events) < MaxEvents) :
         LET event_data == [event_type |-> "saga_failed",
                            workflow_id |-> WorkflowId, status |-> "failed",
                            error |-> caught.msg,
                            processing_state |-> processing_state]
             r == Attempt(fault, log_processing_event(event_data))
         IN
         /\ ApplyWorld(r.world)
         /\ CancelSeen
         /\ IF r.status # "ok" /\ ShouldRetry(r.status, attempts + 1, Unlimited)
            THEN /\ pc' = waiting
                 /\ UNCHANGED <<attempts, outcome>>
            ELSE /\ outcome' = RaisedOutcome(
                        Surfaced(caught, r.status,
                                 ActivityError("log_processing_event", r)))
                 /\ pc' = "failed"
                 /\ attempts' = 0
    /\ UNCHANGED <<input_data, served, invoked, stage, tried, processing_state,
                   compensation_steps, unwind_pos, caught, other, dispatched,
                   returned, comp_calls, last_failed>>

_log_failure_event == AwaitFailureEvent("log_failure")

\* client.py, cancel_workflow: handle.cancel() on a run that has not ended.
\* The host takes one cancellation request per run.
cancel_workflow ==
    /\ pc \in {"running", "compensating", "log_success", "log_failure",
              "simple_running", "simple_backoff", "compensating_backoff",
              "log_success_backoff", "log_failure_backoff"}
    /\ cancel = "none"
    /\ cancel' = "requested"
    /\ UNCHANGED <<input_data, served, invoked, pc, stage, attempts, tried,
                   processing_state, compensation_steps, unwind_pos, caught,
                   outcome, files, uploads, issued, events, other, dispatched,
                   returned, comp_calls, last_failed>>

----------------------------------------------------------------------------

\* The run as constructed, before run is entered.
InitEngine ==
    /\ pc = "pending"
    /\ stage = "none"
    /\ attempts = 0
    /\ tried = <<>>
    /\ processing_state = EmptyDict
    /\ compensation_steps = <<>>
    /\ unwind_pos = 0
    /\ caught = NoError
    /\ outcome = [kind |-> "none", status |-> "running",
                  workflow_id |-> WorkflowId, results |-> EmptyDict,
                  compensation_steps |-> <<>>, error |-> NoError]
    /\ cancel = "none"
    /\ dispatched = <<>>
    /\ returned = <<>>
    /\ comp_calls = <<>>
    /\ last_failed = [stage |-> "none", status |-> "none", msg |-> "",
                      attempts |-> 0, tried |-> <<>>]
    /\ invoked = <<>>

\* A run started with a URL and a filename, as client.py starts it.
InitRun ==
    /\ input_data \in [file_url : {"http://x/posts"}, filename : Filenames]
    /\ served \in Bodies
    /\ InitEngine

\* The working directories, the upload service and the log before any run.
InitWorld ==
    /\ files = EmptyDict
    /\ uploads = {}
    /\ issued = 0
    /\ events = <<>>

Init == InitRun /\ InitWorld /\ other = "absent"

Next ==
    \/ Start
    \/ _download_file_step
    \/ _validate_file_step
    \/ _backup_file_step
    \/ _parse_file_step
    \/ _process_data_step
    \/ _save_data_step
    \/ _upload_data_step
    \/ _validate_result_step
    \/ _send_notification_step
    \/ _cleanup_step
    \/ _execute_compensation
    \/ _log_success_event
    \/ _log_failure_event
    \/ cancel_workflow

Spec == Init /\ [][Next]_vars

\* The saga with the host's retry interval between two attempts of a call
\* that has no attempt ceiling (the compensations, the two event writes).
_execute_compensation_attempt == AwaitCompensation("compensating_backoff")

_log_success_event_attempt == AwaitSuccessEvent("log_success_backoff")

_log_failure_event_attempt == AwaitFailureEvent("log_failure_backoff")

\* The retry interval ends: the host makes the next attempt.
RetryInterval ==
    /\ pc \in {"compensating_backoff", "log_success_backoff",
              "log_failure_backoff"}
    /\ pc' = CASE pc = "compensating_backoff" -> "compensating"
              [] pc = "log_success_backoff" -> "log_success"
              [] pc = "log_failure_backoff" -> "log_failure"
    /\ UNCHANGED <<input_data, served, invoked, stage, attempts, tried,
                   processing_state, compensation_steps, unwind_pos, caught,
                   outcome, files, uploads, issued, events, cancel, other,
                   dispatched, returned, comp_calls, last_failed>>

NextTimed ==
    \/ Start
    \/ _download_file_step
    \/ _validate_file_step
    \/ _backup_file_step
    \/ _parse_file_step
    \/ _process_data_step
    \/ _save_data_step
    \/ _upload_data_step
    \/ _validate_result_step
    \/ _send_notification_step
    \/ _cleanup_step
    \/ _execute_compensation_attempt
    \/ _log_success_event_attempt
    \/ _log_failure_event_attempt
    \/ RetryInterval
    \/ cancel_workflow

\* The host goes on making the attempts and retries that are due.
FairSpecTimed == Init /\ [][NextTimed]_vars /\ WF_vars(NextTimed)

----------------------------------------------------------------------------
(* SimpleFileProcessingWorkflow (workflows.py, lines 296-349): six activities
   awaited in sequence, with a start-to-close timeout each and no retry
   policy, outside any try block.  processing_state holds run's local
   variables (download_result, validation_result, ...) under their names. *)

SimpleStageOrder ==
    << "download", "validation", "parsing", "processing", "saving", "cleanup" >>

SimpleStages == { SimpleStageOrder[i] : i \in 1..Len(SimpleStageOrder) }

SimpleIndex(s) == CHOOSE i \in 1..Len(SimpleStageOrder) : SimpleStageOrder[i] = s

\* f"simple_processed_{workflow.info().workflow_id}.json"
SimpleOutputFilename == [stem |-> "simple_processed_" \o WorkflowId, ext |-> ".json"]

\* The activity call of stage s of the simple run, with its arguments.
SimpleActivity(s, http, stuck) ==
    CASE s = "download" ->
            download_file(input_data.file_url, input_data.filename, http)
      [] s = "validation" ->
            validate_file_format(processing_state["download_result"].file_path)
      [] s = "parsing" ->
            parse_file_content(processing_state["download_result"].file_path)
      [] s = "processing" ->
            process_data_records(processing_state["parsing_result"])
      [] s = "saving" ->
            save_processed_data(processing_state["processing_result"],
                                SimpleOutputFilename)
      [] s = "cleanup" ->
            cleanup_temp_files(
                <<processing_state["download_result"].file_path>>, stuck)

\* The dict the simple run returns (lines 342-349): the cleanup result is
\* not among its entries.
SimpleOutcome ==
    [kind |-> "returned", status |-> "completed", workflow_id |-> WorkflowId,
     results |-> [k \in { ResultKey(s) : s \in SimpleStages \ {"cleanup"} } |->
                     processing_state[k]],
     compensation_steps |-> <<>>, error |-> NoError]

\* Mutant of SimpleNextStage: parse is awaited before validate.
SimpleNextStageParseFirst(s) ==
    CASE s = "download" -> "parsing"
      [] s = "parsing" -> "validation"
      [] s = "validation" -> "processing"
      [] s = "processing" -> "saving"
      [] s = "saving" -> "cleanup"
      [] OTHER -> "none"

\* The stage awaited after stage s has returned ("none": run returns).
SimpleNextStage(s) ==
    IF SimpleIndex(s) < Len(SimpleStageOrder)
    THEN SimpleStageOrder[SimpleIndex(s) + 1] ELSE "none"

\* The call returns: its result is bound, and run awaits the next call or
\* returns.
SimpleReturned(s, result) ==
    /\ processing_state' = DictSet(processing_state, ResultKey(s), result)
    /\ returned' = Append(returned, s)
    /\ attempts' = 0
    /\ stage' = SimpleNextStage(s)
    /\ IF SimpleNextStage(s) # "none"
       THEN /\ dispatched' = Append(dispatched, SimpleNextStage(s))
            /\ pc' = "simple_running"
            /\ UNCHANGED outcome
       ELSE /\ dispatched' = dispatched
            /\ pc' = "completed"
            /\ outcome' = SimpleOutcome
    /\ UNCHANGED last_failed

\* Mutant of SimpleFailed: the failure is answered by the cleanup call.
SimpleFailedCleansUp(s, r) ==
    /\ last_failed' = [stage |-> s, status |-> r.status, msg |-> r.msg,
                       attempts |-> attempts + 1, tried |-> <<>>]
    /\ pc' = "simple_running"
    /\ stage' = "cleanup"
    /\ dispatched' = Append(dispatched, "cleanup")
    /\ attempts' = 0
    /\ UNCHANGED <<processing_state, returned, outcome>>

\* The call raises: nothing catches the exception, which leaves run.
SimpleFailed(s, r) ==
    /\ last_failed' = [stage |-> s, status |-> r.status, msg |-> r.msg,
                       attempts |-> attempts + 1, tried |-> <<>>]
    /\ outcome' = RaisedOutcome(ActivityError(s, r))
    /\ pc' = "failed"
    /\ stage' = "none"
    /\ attempts' = 0
    /\ UNCHANGED <<processing_state, returned, dispatched>>

\* SimpleFileProcessingWorkflow.run is entered: the download is dispatched.
SimpleStart ==
    /\ pc = "pending"
    /\ pc' = "simple_running"
    /\ stage' = SimpleStageOrder[1]
    /\ dispatched' = Append(dispatched, SimpleStageOrder[1])
    /\ UNCHANGED <<input_data, served, invoked, attempts, tried, processing_state,
                   compensation_steps, unwind_pos, caught, outcome, files,
                   uploads, issued, events, cancel, other, returned,
                   comp_calls, last_failed>>

\* One attempt of the activity the simple run awaits.  A retryable failure
\* is followed by the host's retry interval.
SimpleStep ==
    /\ pc = "simple_running"
    /\ \E fault \in AttemptFaults(TRUE), http \in StatusesSeen(stage),
          stuck \in StuckFiles(stage) :
         LET r == Attempt(fault, SimpleActivity(stage, http, stuck)) IN
         /\ ApplyWorld(r.world)
         /\ CancelSeen
         /\ IF r.status = "ok" THEN SimpleReturned(stage, r.value)
            ELSE IF ShouldRetry(r.status, attempts + 1, Unlimited)
            THEN /\ attempts' = Min(attempts + 1, MaxCounted)
                 /\ pc' = "simple_backoff"
                 /\ UNCHANGED <<stage, processing_state, outcome, dispatched,
                                returned, last_failed>>
            ELSE SimpleFailed(stage, r)
    /\ UNCHANGED <<input_data, served, invoked, tried, compensation_steps, unwind_pos,
                   caught, other, comp_calls>>

\* The retry interval ends: the host makes the next attempt.
SimpleRetry ==
    /\ pc = "simple_backoff"
    /\ pc' = "simple_running"
    /\ UNCHANGED <<input_data, served, invoked, stage, attempts, tried,
                   processing_state, compensation_steps, unwind_pos, caught,
                   outcome, files, uploads, issued, events, cancel, other,
                   dispatched, returned, comp_calls, last_failed>>

InitSimple == InitRun /\ InitWorld /\ other = "absent"

NextSimple ==
    \/ SimpleStart
    \/ SimpleStep
    \/ SimpleRetry
    \/ cancel_workflow

SpecSimple == InitSimple /\ [][NextSimple]_vars

\* The host goes on making the attempts and retries that are due.
FairSpecSimple == SpecSimple /\ WF_vars(NextSimple)

----------------------------------------------------------------------------
(* Runs started with whatever dict the caller passes: run takes a Dict and
   reads input_data["file_url"] and input_data["filename"]. *)

InitAnyInput ==
    /\ \E name \in {n \in Filenames : n.ext \in ValidExtensions} :
          \/ input_data = [file_url |-> "http://x/posts", filename |-> name]
          \/ input_data = [file_url |-> "", filename |-> name]
          \/ input_data = [file_url |-> "http://x/posts", filename |-> EmptyName]
          \/ input_data = [file_url |-> "http://x/posts"]
          \/ input_data = [filename |-> name]
    /\ served = JsonList(Repeat("o", MaxRecords))
    /\ InitEngine
    /\ InitWorld
    /\ other = "absent"

SpecAnyInput == InitAnyInput /\ [][Next]_vars

----------------------------------------------------------------------------
(* The compensating activities on their own: each is invoked, any number of
   times up to MaxInvocations, on a target that may or may not still exist.
   The upload service answers as sample_server.py does. *)

\* The paths a run's cleanup entries name.
CompensationPaths == {InputPath(input_data.filename), ProcessedPath(OutputFilename)}

InitCompensation ==
    /\ InitRun
    /\ other = "absent"
    /\ \E present \in SUBSET CompensationPaths :
          files = [p \in present |-> served]
    /\ uploads \in SUBSET (1..MaxUploads)
    /\ issued = MaxUploads
    /\ events = <<>>

\* One invocation of the activity of entry `step`, as the loop of
\* _execute_compensation makes it (lines 243-261), its result recorded.
InvokeCompensation(step, stuck) ==
    LET r == CompensationActivity(step, 200, stuck) IN
    /\ Len(comp_calls) < MaxInvocations
    /\ ApplyWorld(r.world)
    /\ comp_calls' = Append(comp_calls,
            [type |-> step[1], data |-> step[2],
             result |-> IF r.status = "ok" THEN "ok" ELSE "failed"])
    /\ UNCHANGED <<input_data, served, invoked, pc, stage, attempts, tried,
                   processing_state, compensation_steps, unwind_pos, caught,
                   outcome, cancel, other, dispatched, returned, last_failed>>

invoke_cleanup_temp_files ==
    \E p \in CompensationPaths, stuck \in SUBSET DOMAIN files :
        InvokeCompensation(
            <<IF p.dir = "input" THEN "cleanup_download" ELSE "cleanup_saved", p>>,
            stuck)

invoke_rollback_upload ==
    \E upload_id \in 1..MaxUploads :
        InvokeCompensation(<<"rollback_upload", upload_id>>, {})

NextCompensation ==
    \/ invoke_cleanup_temp_files
    \/ invoke_rollback_upload

SpecCompensation == InitCompensation /\ [][NextCompensation]_vars

----------------------------------------------------------------------------
(* Two runs on one worker: beside the run above, another run of the same
   workflow, under another workflow id, is started with the same filename.
   Of that run the model follows the two calls that act on the path both
   runs are given: its download, and the cleanup_temp_files call of its
   last stage or of its unwind. *)

InitTwoRuns == InitRun /\ InitWorld /\ other = "started"

\* The other run's _download_file_step: download_file(file_url, filename).
other_download_file ==
    /\ other = "started"
    /\ LET r == download_file(input_data.file_url, input_data.filename, 200) IN
       ApplyWorld(r.world)
    /\ other' = "downloaded"
    /\ UNCHANGED <<input_data, served, invoked, pc, stage, attempts, tried,
                   processing_state, compensation_steps, unwind_pos, caught,
                   outcome, cancel, dispatched, returned, comp_calls,
                   last_failed>>

\* The other run's cleanup_temp_files([download_result["file_path"]]).
other_cleanup_temp_files ==
    /\ other = "downloaded"
    /\ LET r == cleanup_temp_files(<<InputPath(input_data.filename)>>, {}) IN
       ApplyWorld(r.world)
    /\ other' = "ended"
    /\ UNCHANGED <<input_data, served, invoked, pc, stage, attempts, tried,
                   processing_state, compensation_steps, unwind_pos, caught,
                   outcome, cancel, dispatched, returned, comp_calls,
                   last_failed>>

NextTwoRuns ==
    \/ Next
    \/ other_download_file
    \/ other_cleanup_temp_files

SpecTwoRuns == InitTwoRuns /\ [][NextTwoRuns]_vars

----------------------------------------------------------------------------
(* The upload service on its own (sample_server.py): clients post files and
   delete uploads by id, known to the service or not, up to MaxRequests
   requests.  Each request is recorded with the service's answer. *)

InitServer ==
    /\ input_data = [file_url |-> "http://x/posts",
                     filename |-> [stem |-> "posts", ext |-> ".json"]]
    /\ served = <<>>
    /\ InitEngine
    /\ InitWorld
    /\ other = "absent"

\* POST /upload with a file
post_upload ==
    /\ Len(invoked) < MaxRequests
    /\ LET resp == handle_upload IN
       /\ uploads' = resp.uploads
       /\ issued' = resp.issued
       /\ invoked' = Append(invoked,
              [call |-> "handle_upload", args |-> 0,
               result |-> [status |-> resp.status, upload_id |-> resp.upload_id]])
    /\ UNCHANGED <<input_data, served, pc, stage, attempts, tried,
                   processing_state, compensation_steps, unwind_pos, caught,
                   outcome, files, events, cancel, other, dispatched, returned,
                   comp_calls, last_failed>>

\* DELETE /rollback/{upload_id}
delete_rollback ==
    /\ Len(invoked) < MaxRequests
    /\ \E upload_id \in 1..MaxRequests :
         LET resp == handle_rollback(upload_id) IN
         /\ uploads' = resp.uploads
         /\ invoked' = Append(invoked,
                [call |-> "handle_rollback", args |-> upload_id,
                 result |-> [status |-> resp.status, upload_id |-> upload_id]])
    /\ UNCHANGED <<input_data, served, pc, stage, attempts, tried,
                   processing_state, compensation_steps, unwind_pos, caught,
                   outcome, files, issued, events, cancel, other, dispatched,
                   returned, comp_calls, last_failed>>

NextServer ==
    \/ post_upload
    \/ delete_rollback

SpecServer == InitServer /\ [][NextServer]_vars

----------------------------------------------------------------------------
(* parse_file_content and process_data_records on their own, as the tests of
   TestFileProcessingActivities call them: a file is in place, it is parsed,
   and the parse result is handed to process_data_records as
   _process_data_step hands it over. *)

\* JSON lists of objects and numbers, JSON objects, and texts of letters,
\* blanks and newlines.
Contents ==
    { JsonList(e) : e \in UNION { [1..n -> {"o", "1"}] : n \in 0..MaxItems } }
    \cup { JsonObject(Repeat("k", n)) : n \in 0..MaxItems }
    \cup UNION { [1..n -> {"a", " ", "\n"}] : n \in 0..MaxChars }

InitActivities ==
    /\ input_data \in [file_url : {"http://x/posts"},
                        filename : { [stem |-> "posts", ext |-> e] :
                                        e \in {".json", ".csv", ".txt"} }]
    /\ served \in Contents
    /\ InitEngine
    /\ files = [p \in {InputPath(input_data.filename)} |-> served]
    /\ uploads = {}
    /\ issued = 0
    /\ events = <<>>
    /\ other = "absent"

invoke_parse_file_content ==
    /\ invoked = <<>>
    /\ \E file_path \in DOMAIN files :
         LET r == parse_file_content(file_path) IN
         /\ ApplyWorld(r.world)
         /\ invoked' = <<[call |-> "parse_file_content", args |-> file_path,
                          result |-> Returned(r)]>>
    /\ UNCHANGED <<input_data, served, pc, stage, attempts, tried,
                   processing_state, compensation_steps, unwind_pos, caught,
                   outcome, cancel, other, dispatched, returned, comp_calls,
                   last_failed>>

invoke_process_data_records ==
    /\ Len(invoked) = 1
    /\ invoked[1].result.success
    /\ LET r == process_data_records(invoked[1].result) IN
       /\ ApplyWorld(r.world)
       /\ invoked' = Append(invoked,
              [call |-> "process_data_records", args |-> invoked[1].result,
               result |-> Returned(r)])
    /\ UNCHANGED <<input_data, served, pc, stage, attempts, tried,
                   processing_state, compensation_steps, unwind_pos, caught,
                   outcome, cancel, other, dispatched, returned, comp_calls,
                   last_failed>>

NextActivities ==
    \/ invoke_parse_file_content
    \/ invoke_process_data_records

SpecActivities == InitActivities /\ [][NextActivities]_vars

----------------------------------------------------------------------------
(* cleanup_temp_files on its own: called with a list of paths, as
   _cleanup_step and the tests call it, and as the entries cleanup_download
   and cleanup_saved of _execute_compensation call it, on directories in
   which the files may or may not be present and removable. *)

InitCleanup ==
    /\ InitRun
    /\ other = "absent"
    /\ \E present \in SUBSET CompensationPaths :
          files = [p \in present |-> served]
    /\ uploads = {}
    /\ issued = 0
    /\ events = <<>>

\* cleanup_temp_files(file_paths); raising: the paths os.remove fails on
call_cleanup_temp_files ==
    /\ invoked = <<>>
    /\ \E file_paths \in UNION { [1..n -> CompensationPaths] : n \in 0..MaxPaths },
          raising \in SUBSET DOMAIN files :
         LET r == cleanup_temp_files(file_paths, raising) IN
         /\ ApplyWorld(r.world)
         /\ invoked' = <<[call |-> "cleanup_temp_files",
                          args |-> [file_paths |-> file_paths,
                                    raising |-> raising],
                          result |-> Returned(r)]>>
    /\ UNCHANGED <<input_data, served, pc, stage, attempts, tried,
                   processing_state, compensation_steps, unwind_pos, caught,
                   outcome, cancel, other, dispatched, returned, comp_calls,
                   last_failed>>

NextCleanup ==
    \/ call_cleanup_temp_files
    \/ invoke_cleanup_temp_files

SpecCleanup == InitCleanup /\ [][NextCleanup]_vars

----------------------------------------------------------------------------
(* Properties *)

Range(seq) == { seq[i] : i \in 1..Len(seq) }

IsPrefix(a, b) == Len(a) <= Len(b) /\ \A i \in 1..Len(a) : a[i] = b[i]

\* The run has ended.
Ended == pc \in {"completed", "failed"}

\* run's except clause has gone past _execute_compensation.
UnwindOver == pc \in {"log_failure", "failed"} /\ caught # NoError

\* The kinds of the compensation calls made so far, in the order made.
CalledKinds == [i \in 1..Len(comp_calls) |-> comp_calls[i].type]

\* The order of the forward stages the specification declares.
DeclaredOrder ==
    << "download", "validation", "backup", "parsing", "processing",
       "saving", "upload", "validation_final", "notification", "cleanup" >>

\* C1: the forward stages are started in the declared order (download,
\* validate format, backup, parse, process, save, upload, validate-result,
\* notify, cleanup), and a stage is started only when the stage before it
\* has returned success in this run.
C1_StagesDispatchedInOrder ==
    /\ IsPrefix(dispatched, DeclaredOrder)
    /\ \A i \in 2..Len(dispatched) : dispatched[i - 1] \in Range(returned)
    /\ pc = "running" => stage = dispatched[Len(dispatched)]
    /\ IsPrefix(returned, dispatched)

\* The last stage is in flight, the nine before it having returned.
C1_Witness ==
    pc = "running" /\ stage = "cleanup" /\ Len(returned) = 9 /\ attempts = 1

\* The compensation kinds the stages before the k-th of the declared order
\* register, in registration order.
DeclaredPushesBefore(k) ==
    (IF k > 1 THEN <<"cleanup_download">> ELSE <<>>) \o
    (IF k > 6 THEN <<"cleanup_saved">> ELSE <<>>) \o
    (IF k > 7 THEN <<"rollback_upload">> ELSE <<>>)

DeclaredIndex(s) == CHOOSE i \in 1..Len(DeclaredOrder) : DeclaredOrder[i] = s

\* C2: when stage k fails after stages 1..k-1 succeeded, the unwind makes
\* exactly the compensation calls registered by stages 1..k-1, newest
\* first: while it runs, the calls made are a prefix of that reversed list,
\* and once it is over they are the whole list.  When upload fails the
\* calls are cleanup_saved, then cleanup_download, and no rollback_upload.
C2_UnwindExactlyReversePushes ==
    last_failed.stage # "none" =>
        LET expected == Reverse(DeclaredPushesBefore(DeclaredIndex(last_failed.stage)))
        IN  /\ IsPrefix(CalledKinds, expected)
            /\ UnwindOver => CalledKinds = expected
            /\ (UnwindOver /\ last_failed.stage = "upload") =>
                   CalledKinds = <<"cleanup_saved", "cleanup_download">>
            /\ \A i \in 1..Len(comp_calls) :
                   comp_calls[i].data =
                       Reverse(compensation_steps)[i][2]

\* The upload failed and the unwind has made both of its calls.
C2_Witness ==
    /\ pc = "failed"
    /\ last_failed.stage = "upload"
    /\ Len(comp_calls) = 2

\* The kinds of the entries on the compensation stack.
StackedKinds == { compensation_steps[i][1] : i \in 1..Len(compensation_steps) }

\* C3: at every point of a run, cleanup_download, cleanup_saved and
\* rollback_upload are on the compensation stack if and only if download,
\* save and upload, respectively, have returned success; nothing else is on it.
C3_PushedIffStageReturned ==
    /\ "cleanup_download" \in StackedKinds <=> "download" \in Range(returned)
    /\ "cleanup_saved" \in StackedKinds <=> "saving" \in Range(returned)
    /\ "rollback_upload" \in StackedKinds <=> "upload" \in Range(returned)
    /\ StackedKinds \subseteq {"cleanup_download", "cleanup_saved", "rollback_upload"}

\* The upload has failed after the save succeeded: two entries, no rollback.
C3_Witness ==
    /\ last_failed.stage = "upload"
    /\ StackedKinds = {"cleanup_download", "cleanup_saved"}

C5_OriginalFailureSurfaced ==
    (pc = "failed" /\ last_failed.stage # "none") =>
        /\ outcome.error.of = last_failed.stage
        /\ outcome.error.msg = last_failed.msg

\* C6: a run whose ten stages all succeeded ends with status completed and
\* a recorded result for each of the ten stages.
C6_AllStagesSucceededCompletes ==
    (Ended /\ Len(returned) = Len(DeclaredOrder)) =>
        /\ outcome.status = "completed"
        /\ \A s \in Range(DeclaredOrder) :
              ResultKey(s) \in DOMAIN outcome.results

\* C7: a run that returns completed has made no compensation call (the
\* upload is still held by the service), and returns the registered
\* entries in registration order: cleanup_download, cleanup_saved,
\* rollback_upload, each with the target its stage produced.
C7_CompletedReturnsUnexecutedStack ==
    outcome.status = "completed" =>
        /\ comp_calls = <<>>
        /\ outcome.compensation_steps # <<>>
        /\ [i \in 1..Len(outcome.compensation_steps) |->
                outcome.compensation_steps[i][1]]
              = <<"cleanup_download", "cleanup_saved", "rollback_upload">>
        /\ outcome.compensation_steps[1][2] =
              outcome.results["download_result"].file_path
        /\ outcome.compensation_steps[2][2] =
              outcome.results["saving_result"].output_path
        /\ outcome.compensation_steps[3][2] =
              outcome.results["upload_result"].upload_id
        /\ outcome.results["upload_result"].upload_id \in uploads
        /\ outcome.results["saving_result"].output_path \in DOMAIN files

\* The run has returned completed.
C7_Witness ==
    pc = "completed" /\ outcome.kind = "returned" /\ Len(events) = 1

\* C8: when the ten stages have succeeded, a failure to record the
\* saga_completed event executes no compensation and the run is still
\* reported completed.
C8_EventFailureKeepsCompletion ==
    Len(returned) = Len(DeclaredOrder) =>
        /\ pc # "compensating"
        /\ comp_calls = <<>>
        /\ Ended => outcome.kind = "returned"

ValidationMessages ==
    { "File does not exist", "File is empty", "Unsupported file format",
      "Processing was not successful", "No records were processed" }

\* An attempt that ended with a validation failure.
IsValidationFailure(t) == t.status = "exception" /\ t.msg \in ValidationMessages

\* C9: a validation failure is not retried: no attempt of validate or
\* validate-result follows one that ended with a validation failure (tried
\* holds the attempts that are being followed by another).
C9_ValidationFailureNotRetried ==
    /\ \A i \in 1..Len(tried) : ~IsValidationFailure(tried[i])
    /\ \A i \in 1..Len(last_failed.tried) :
          IsValidationFailure(last_failed.tried[i]) => i = Len(last_failed.tried)

\* The attempt ceiling the specification gives each stage.
DeclaredMaxAttempts(s) ==
    IF s \in {"download", "backup", "processing", "saving", "upload", "notification"}
    THEN 3 ELSE 2

IsTransient(t) == t.status \in {"exception", "timeout"}

\* C10: no forward stage is attempted more often than its ceiling (3 for
\* download, backup, process, save, upload, notify; 2 for validate, parse,
\* validate-result, cleanup), and a stage whose every attempt failed
\* transiently has been attempted exactly as often as its ceiling when the
\* failure reaches run: 3 times for a stage with ceiling 3.
C10_AttemptsBoundedByCeiling ==
    /\ pc = "running" =>
          /\ attempts = Len(tried)
          /\ attempts < DeclaredMaxAttempts(stage)
    /\ last_failed.stage # "none" =>
          /\ last_failed.attempts = Len(last_failed.tried)
          /\ last_failed.attempts <= DeclaredMaxAttempts(last_failed.stage)
          /\ (\A i \in 1..Len(last_failed.tried) : IsTransient(last_failed.tried[i]))
                => last_failed.attempts = DeclaredMaxAttempts(last_failed.stage)

\* The upload failed transiently three times and the failure reached run.
C10_Witness ==
    /\ last_failed.stage = "upload"
    /\ last_failed.attempts = 3
    /\ \A i \in 1..3 : IsTransient(last_failed.tried[i])

\* C11: a compensating action invoked again on a target it has already
\* undone changes nothing and reports success: cleanup_temp_files on a file
\* already deleted and rollback_upload on an upload id the service no longer
\* knows are both successful no-ops.
C11_SecondInvocationSucceeds ==
    \A i, j \in 1..Len(comp_calls) :
        ( /\ i < j
          /\ comp_calls[i].type = comp_calls[j].type
          /\ comp_calls[i].data = comp_calls[j].data
          /\ comp_calls[i].result = "ok" )
        => comp_calls[j].result = "ok"

\* C12: when a cancellation arrives while a stage's activity is in flight,
\* the unwind still runs: every compensation registered by the stages
\* that had returned is called, newest first, before the run ends.
C12_CancelledRunUnwinds ==
    last_failed.status = "cancelled" =>
        /\ pc \in {"compensating", "log_failure", "failed"}
        /\ IsPrefix(CalledKinds,
                    Reverse(DeclaredPushesBefore(DeclaredIndex(last_failed.stage))))
        /\ pc \in {"log_failure", "failed"} =>
              /\ Len(comp_calls) = Len(compensation_steps)
              /\ CalledKinds =
                    Reverse(DeclaredPushesBefore(DeclaredIndex(last_failed.stage)))
              /\ \A i \in 1..Len(comp_calls) :
                    comp_calls[i].data =
                        compensation_steps[Len(compensation_steps) + 1 - i][2]

\* The notification was cancelled in flight and the run has ended after
\* the rollback and both cleanups were called.
C12_Witness ==
    /\ pc = "failed"
    /\ cancel = "delivered"
    /\ last_failed.status = "cancelled"
    /\ last_failed.stage = "notification"
    /\ CalledKinds = <<"rollback_upload", "cleanup_saved", "cleanup_download">>

\* C14: concurrent runs do not interfere, even when started with the same
\* filename: no step of one run overwrites or deletes a file of another.
\* In particular the input file this run downloaded stays in place for as
\* long as this run's stages before its own cleanup are at work.
C14_RunsDoNotInterfere ==
    ( /\ pc = "running"
      /\ stage # "cleanup"
      /\ "download" \in Range(returned) )
    => /\ processing_state["download_result"].file_path \in DOMAIN files
       /\ files[processing_state["download_result"].file_path] = served

\* C15: a run produces exactly one terminal outcome: it ends either by
\* returning the completed outcome or by raising a failure, never both, and
\* the outcome once produced is never produced again or changed.
C15_ExactlyOneTerminalOutcome ==
    /\ []( /\ Ended <=> outcome.kind # "none"
           /\ outcome.kind \in {"none", "returned", "raised"}
           /\ outcome.kind = "returned" =>
                 /\ pc = "completed"
                 /\ outcome.status = "completed"
                 /\ outcome.error = NoError
           /\ outcome.kind = "raised" =>
                 /\ pc = "failed"
                 /\ outcome.status = "failed"
                 /\ outcome.error # NoError )
    /\ [][outcome.kind # "none" => outcome' = outcome]_vars

\* A run has ended by raising, after a full unwind, with no cancellation.
C15_Witness ==
    /\ Ended
    /\ outcome.kind = "raised"
    /\ cancel = "none"
    /\ Len(comp_calls) = 3

\* The log holds an event of type t.
HasEvent(t) == \E i \in 1..Len(events) : events[i].event = t

\* C16: the saga_failed event is recorded only after the unwind has
\* finished: when the failure-event logging is invoked, and whenever a
\* saga_failed event is in the log, every stacked compensation has had its
\* attempts, successful or not, and none is made afterwards.
C16_FailureEventAfterUnwind ==
    /\ []( (pc = "log_failure" \/ HasEvent("saga_failed")) =>
              /\ pc # "compensating"
              /\ caught # NoError
              /\ Len(comp_calls) = Len(compensation_steps) )
    /\ [][ (pc = "log_failure" \/ HasEvent("saga_failed")) =>
              (comp_calls' = comp_calls /\ pc' # "compensating") ]_vars

\* The failure event is in the log after an unwind of two entries whose
\* first call failed.
C16_Witness ==
    /\ pc = "failed"
    /\ HasEvent("saga_failed")
    /\ Len(comp_calls) = 2
    /\ comp_calls[1].result = "failed"

\* The terminal events in the log: the saga_completed and saga_failed ones.
TerminalEvents ==
    { i \in 1..Len(events) : events[i].event \in {"saga_completed", "saga_failed"} }

\* C17: a run appends exactly one terminal event to the log: a
\* saga_completed event if and only if it returns completed, a saga_failed
\* event if and only if it fails; no run records both or neither.
C17_ExactlyOneTerminalEvent ==
    Ended =>
        /\ Cardinality(TerminalEvents) = 1
        /\ HasEvent("saga_completed") <=> pc = "completed"
        /\ HasEvent("saga_failed") <=> pc = "failed"

\* C18: the outcome of a failed run tells the caller the compensation
\* status: the outcome of a run in which some compensation call failed
\* differs from the outcome of a run that raised the same error and whose
\* compensation calls all succeeded.
C18_OutcomeTellsCompensationStatus ==
    ( /\ pc = "failed"
      /\ \E i \in 1..Len(comp_calls) : comp_calls[i].result = "failed" )
    => outcome # RaisedOutcome(outcome.error)

\* C19: during the unwind a compensation call has a bounded attempt
\* ceiling, no larger than the forward stages': a compensation activity
\* that fails on every attempt is given up on, and the walk goes on, before
\* it has been attempted more often than any forward stage would be.
C19_CompensationGivenUp ==
    pc = "compensating" => \E s \in Stages : attempts < MaxAttempts(s)

\* C20: the engine never retries at its own level: a forward stage is
\* dispatched at most once in a run, and a stage failure that reaches the
\* engine starts the unwind at once (the failure event, when nothing is
\* stacked), no stage being dispatched after it.
C20_EngineNeverRetries ==
    /\ []( /\ \A i, j \in 1..Len(dispatched) :
                 dispatched[i] = dispatched[j] => i = j
           /\ last_failed.stage # "none" =>
                 /\ pc \in {"compensating", "log_failure", "failed"}
                 /\ stage = "none"
                 /\ dispatched[Len(dispatched)] = last_failed.stage )
    /\ [][ /\ last_failed.stage # "none" => dispatched' = dispatched
           /\ (last_failed.stage = "none" /\ last_failed'.stage # "none") =>
                 /\ pc' = IF compensation_steps = <<>>
                          THEN "log_failure" ELSE "compensating"
                 /\ comp_calls' = <<>>
                 /\ dispatched' = dispatched ]_vars

\* The upload failed after its three attempts and was not dispatched
\* again: the unwind is at its first entry.
C20_Witness ==
    /\ pc = "compensating"
    /\ unwind_pos = 1
    /\ last_failed.stage = "upload"
    /\ last_failed.attempts = 3
    /\ Len(dispatched) = 7

\* The input lacks file_url or filename, or holds an empty one.
InvalidInput ==
    \/ "file_url" \notin DOMAIN input_data
    \/ "filename" \notin DOMAIN input_data
    \/ input_data.file_url = ""
    \/ input_data.filename = EmptyName

\* C21: the saga validates its input before running: with an empty or
\* missing file_url or filename no forward stage is dispatched, the
\* download included.
C21_InvalidInputNeverDispatched ==
    InvalidInput => dispatched = <<>>

\* The order of the Simple Pipeline's stages the specification declares.
DeclaredSimpleOrder ==
    << "download", "validation", "parsing", "processing", "saving", "cleanup" >>

\* C22: in the Simple Pipeline the stages download, validate, parse,
\* process, save, cleanup are dispatched strictly in that order, each only
\* after the one before it returned success; when all have succeeded the
\* run returns status completed with the download, validation, parsing,
\* processing and saving results.
C22_SimpleStagesInOrder ==
    /\ IsPrefix(dispatched, DeclaredSimpleOrder)
    /\ IsPrefix(returned, dispatched)
    /\ \A i \in 2..Len(dispatched) : dispatched[i - 1] \in Range(returned)
    /\ pc \in {"simple_running", "simple_backoff"} =>
          stage = dispatched[Len(dispatched)]
    /\ Len(returned) = Len(DeclaredSimpleOrder) =>
          /\ pc = "completed"
          /\ outcome.kind = "returned"
          /\ outcome.status = "completed"
          /\ DOMAIN outcome.results =
                {"download_result", "validation_result", "parsing_result",
                 "processing_result", "saving_result"}
          /\ \A k \in DOMAIN outcome.results : outcome.results[k].success

\* The simple run has returned after its six stages, with the records
\* the parse counted.
C22_Witness ==
    /\ pc = "completed"
    /\ Len(returned) = 6
    /\ outcome.results["parsing_result"].records_count = MaxRecords

C24_SimpleParseFailureDelivered ==
    ( /\ pc = "simple_running"
      /\ stage = "parsing"
      /\ input_data.filename.ext = ".json"
      /\ ~json_loads(served).valid )
    ~> (pc = "failed" /\ outcome.error.of = "parsing")

\* The key the specification gives each stage's result.
DeclaredKey(s) ==
    CASE s = "download" -> "download_result"
      [] s = "validation" -> "validation_result"
      [] s = "backup" -> "backup_result"
      [] s = "parsing" -> "parsing_result"
      [] s = "processing" -> "processing_result"
      [] s = "saving" -> "saving_result"
      [] s = "upload" -> "upload_result"
      [] s = "validation_final" -> "validation_final"
      [] s = "notification" -> "notification_result"
      [] s = "cleanup" -> "cleanup_result"
      [] OTHER -> "none"

\* C25: ProcessingState is append-only: an entry once recorded is never
\* changed or removed, and a stage records under its own key only, which
\* no other stage has written.
C25_ProcessingStateAppendOnly ==
    [][ /\ \A k \in DOMAIN processing_state :
             /\ k \in DOMAIN processing_state'
             /\ processing_state'[k] = processing_state[k]
        /\ pc = "running" =>
             (DOMAIN processing_state') \ (DOMAIN processing_state)
                 \subseteq {DeclaredKey(stage)} ]_vars

\* All ten stages have recorded their results beside workflow_id and
\* start_time.
C25_Witness ==
    /\ pc = "log_success"
    /\ Cardinality(DOMAIN processing_state) = 12

\* C26: compensation is at-most-once: in a run the unwind is started at
\* most once, and during it each registered compensation is dispatched at
\* most once: the calls made are calls of distinct stack entries, the
\* stack does not change once the unwind has started, and the unwind is
\* not entered again once left.
C26_CompensationAtMostOnce ==
    /\ []( /\ Len(comp_calls) <= Len(compensation_steps)
           /\ \A i \in 1..Len(comp_calls) :
                 /\ comp_calls[i].type =
                       compensation_steps[Len(compensation_steps) + 1 - i][1]
                 /\ comp_calls[i].data =
                       compensation_steps[Len(compensation_steps) + 1 - i][2]
           /\ pc = "compensating" => Len(comp_calls) = unwind_pos - 1 )
    /\ [][ caught # NoError =>
             /\ caught' = caught
             /\ compensation_steps' = compensation_steps
             /\ Len(comp_calls') \in {Len(comp_calls), Len(comp_calls) + 1}
             /\ (pc # "compensating" => pc' # "compensating") ]_vars

\* The unwind has called its three entries once each, all with success.
C26_Witness ==
    /\ pc = "log_failure"
    /\ Len(comp_calls) = 3
    /\ \A i \in 1..3 : comp_calls[i].result = "ok"

\* The calls of execute_activity the run has made so far: forward stages,
\* compensation entries, and the two event writes.
CallsBegun ==
    Len(dispatched)
    + (IF pc = "compensating" THEN unwind_pos ELSE Len(comp_calls))
    + (IF Len(returned) = Len(DeclaredOrder) THEN 1 ELSE 0)
    + (IF pc \in {"log_failure", "failed"} THEN 1 ELSE 0)

\* Those of them that have returned or raised.
CallsEnded ==
    Len(returned)
    + (IF last_failed.stage # "none" THEN 1 ELSE 0)
    + Len(comp_calls)
    + (IF Len(returned) = Len(DeclaredOrder) /\ pc # "log_success" THEN 1 ELSE 0)
    + (IF pc = "failed" THEN 1 ELSE 0)

\* C27: within a run at most one activity call (forward stage,
\* compensation or event write) is in flight at any time: a call is made
\* only when every call made before it has ended.
C27_OneActivityInFlight ==
    /\ CallsBegun - CallsEnded \in {0, 1}
    /\ CallsBegun - CallsEnded = 1 <=>
          pc \in {"running", "compensating", "log_success", "log_failure"}

\* The second compensation call is in flight, the first having ended.
C27_Witness ==
    /\ pc = "compensating"
    /\ unwind_pos = 2
    /\ Len(comp_calls) = 1
    /\ CallsBegun = CallsEnded + 1

\* The kinds of the entries on the compensation stack, bottom first.
StackKindsInOrder ==
    [i \in 1..Len(compensation_steps) |-> compensation_steps[i][1]]

\* C28: only download, save and upload register compensations: the stack
\* is always a prefix of <cleanup_download, cleanup_saved,
\* rollback_upload>, and it changes only by one entry being appended when
\* one of these three stages returns; validate, backup, parse, process,
\* validate-result, notify and cleanup never push.
C28_StackIsPrefixOfThree ==
    /\ [] IsPrefix(StackKindsInOrder,
                   <<"cleanup_download", "cleanup_saved", "rollback_upload">>)
    /\ [][ compensation_steps' # compensation_steps =>
             /\ pc = "running"
             /\ stage \in {"download", "saving", "upload"}
             /\ Len(compensation_steps') = Len(compensation_steps) + 1
             /\ IsPrefix(StackKindsInOrder, StackKindsInOrder') ]_vars

\* The notification is in flight with the three entries on the stack.
C28_Witness ==
    /\ pc = "running"
    /\ stage = "notification"
    /\ StackKindsInOrder = <<"cleanup_download", "cleanup_saved", "rollback_upload">>

\* The result keys of the first n stages of the declared order.
DeclaredKeysUpTo(n) == { DeclaredKey(DeclaredOrder[j]) : j \in 1..n }

\* The stage results in the snapshot an event carries.
SnapshotKeys(event) ==
    (DOMAIN event.data.processing_state) \ {"workflow_id", "start_time"}

\* C29: the snapshot a terminal event carries reflects exactly the stages
\* that succeeded: a saga_completed event carries the results of all ten
\* stages, and the saga_failed event of a run that failed at stage k
\* carries the results of stages 1..k-1, as the stages returned them, and
\* none for stage k or a later one.
C29_SnapshotMatchesSucceededStages ==
    \A i \in 1..Len(events) :
        /\ events[i].event = "saga_completed" =>
              /\ SnapshotKeys(events[i]) = DeclaredKeysUpTo(Len(DeclaredOrder))
              /\ events[i].data.processing_state = processing_state
        /\ (events[i].event = "saga_failed" /\ last_failed.stage # "none") =>
              /\ SnapshotKeys(events[i]) =
                    DeclaredKeysUpTo(DeclaredIndex(last_failed.stage) - 1)
              /\ events[i].data.processing_state = processing_state

\* The failure event of a run whose upload failed is in the log, with the
\* six results recorded before the upload.
C29_Witness ==
    /\ pc = "failed"
    /\ last_failed.stage = "upload"
    /\ \E i \in 1..Len(events) :
          /\ events[i].event = "saga_failed"
          /\ Cardinality(SnapshotKeys(events[i])) = 6

\* C30: once a run has started unwinding, no forward stage is dispatched
\* again in it: from then on the run only makes compensation calls, then
\* the failure-event write, and ends.
C30_NoForwardStageAfterUnwind ==
    /\ []( caught # NoError =>
              /\ pc \in {"compensating", "log_failure", "failed"}
              /\ stage = "none" )
    /\ [][ caught # NoError =>
             /\ dispatched' = dispatched
             /\ returned' = returned
             /\ processing_state' = processing_state
             /\ (pc = "log_failure" => pc' \in {"log_failure", "failed"}) ]_vars

\* The unwind started when the final validation failed is over and the
\* failure event is being written; eight stages were dispatched.
C30_Witness ==
    /\ pc = "log_failure"
    /\ last_failed.stage = "validation_final"
    /\ Len(dispatched) = 8
    /\ Len(comp_calls) = 3

\* C31: every saga run terminates.  With the host making every attempt and
\* retry that is due, a run that has started ends: it returns the completed
\* outcome or raises a failure, also when a compensation call or an event
\* write fails on every attempt.
C31_SagaTerminates == (pc = "pending") ~> Ended

\* C32: once a saga run has failed and every compensation it executed
\* reported success, the upload service holds no upload the run created
\* (the service was empty before the run, and no other run uploads), also
\* when an upload attempt reached the service and its result was lost.
C32_NoUploadLeftBehind ==
    ( /\ pc = "failed"
      /\ Len(comp_calls) = Len(compensation_steps)
      /\ \A i \in 1..Len(comp_calls) : comp_calls[i].result = "ok" )
    => uploads = {}

\* The process stage of this run returned zero processed records.
ZeroProcessed ==
    /\ "processing_result" \in DOMAIN processing_state
    /\ processing_state["processing_result"].processed_count = 0

\* C33: the result is validated only after save and upload.  A run whose
\* process stage yields zero processed records still goes on to save (at
\* once) and, save having returned, to upload; validate-result is started
\* only when both have returned, never returns, and no later stage is
\* started; when its failure has been unwound, the compensation calls made
\* are rollback_upload, cleanup_saved, cleanup_download, in this order.
C33_ZeroRecordsFailAfterUpload ==
    ZeroProcessed =>
        /\ "saving" \in Range(dispatched)
        /\ "saving" \in Range(returned) => "upload" \in Range(dispatched)
        /\ "validation_final" \in Range(dispatched) =>
               {"saving", "upload"} \subseteq Range(returned)
        /\ "validation_final" \notin Range(returned)
        /\ Range(dispatched) \cap {"notification", "cleanup"} = {}
        /\ (last_failed.stage = "validation_final" /\ UnwindOver) =>
               CalledKinds = <<"rollback_upload", "cleanup_saved",
                               "cleanup_download">>

\* A run of zero processed records has saved and uploaded, failed at
\* validate-result with the validation's own error, and has been unwound.
C33_Witness ==
    /\ ZeroProcessed
    /\ pc = "failed"
    /\ last_failed.stage = "validation_final"
    /\ last_failed.msg = "No records were processed"
    /\ CalledKinds = <<"rollback_upload", "cleanup_saved", "cleanup_download">>
    /\ \A i \in 1..Len(comp_calls) : comp_calls[i].result = "ok"

\* The stages run awaits after the backup stage.
LaterThanBackup ==
    { "parsing", "processing", "saving", "upload", "validation_final",
      "notification", "cleanup" }

\* C34: the backup stage has no undo.  Once a run that failed at a stage
\* later than backup has been unwound, the backup copy it made is still
\* there, while every file whose cleanup compensation (cleanup_saved,
\* cleanup_download) reported success is gone.
C34_BackupKeptFilesRemoved ==
    (UnwindOver /\ last_failed.stage \in LaterThanBackup) =>
        /\ processing_state["backup_result"].backup_path \in DOMAIN files
        /\ \A i \in 1..Len(comp_calls) :
              ( /\ comp_calls[i].type \in {"cleanup_download", "cleanup_saved"}
                /\ comp_calls[i].result = "ok" )
              => comp_calls[i].data \notin DOMAIN files

\* The requests of one kind answered so far: their positions in the record.
Requests(call) == { i \in 1..Len(invoked) : invoked[i].call = call }

C36_ProcessConservesRecords ==
    Len(invoked) = 2 =>
        /\ invoked[2].result.processed_count = invoked[1].result.records_count
        /\ invoked[2].result.processed_count =
              Len(invoked[2].result.processed_records)

\* A CSV text of one header line and n data rows, no line blank, without
\* and with a newline after the last row.
HeaderAndRows(n) ==
    LET text == [i \in 1..(2 * n + 1) |-> IF i % 2 = 1 THEN "a" ELSE "\n"]
    IN  {text, Append(text, "\n")}

\* C37: parsing a CSV file made of one header line followed by n data rows
\* reports records_count = n: the header line is not counted as a record.
C37_CsvHeaderNotCounted ==
    \A n \in 0..MaxChars :
        ( /\ Len(invoked) >= 1
          /\ Extension(invoked[1].args) = ".csv"
          /\ served \in HeaderAndRows(n) )
        => invoked[1].result.records_count = n

\* C38: cleanup_temp_files never fails as an activity.  Called with any
\* list of paths it returns success = true; a path of the list that was
\* there and is gone is in cleaned_files, one whose removal raised is in
\* failed_files, one that was not there is in neither; nothing but the
\* cleaned files is gone; total_cleaned is the length of cleaned_files.
\* Hence a cleanup compensation is recorded as successful every time, also
\* when the file it names could not be removed.
C38_CleanupNeverFails ==
    [][ /\ Len(invoked') = Len(invoked) + 1 =>
             LET call == invoked'[Len(invoked')]
                 paths == Range(call.args.file_paths)
                 result == call.result
             IN  /\ result.success
                 /\ \A p \in paths :
                       /\ (p \in DOMAIN files /\ p \notin DOMAIN files')
                             => p \in Range(result.cleaned_files)
                       /\ (p \in DOMAIN files /\ p \in call.args.raising)
                             => p \in Range(result.failed_files)
                       /\ p \notin DOMAIN files
                             => p \notin Range(result.cleaned_files)
                                          \cup Range(result.failed_files)
                 /\ DOMAIN files' = DOMAIN files \ Range(result.cleaned_files)
                 /\ Range(result.cleaned_files) \cap Range(result.failed_files) = {}
                 /\ result.total_cleaned = Len(result.cleaned_files)
        /\ Len(comp_calls') = Len(comp_calls) + 1 =>
             LET entry == comp_calls'[Len(comp_calls')] IN
             entry.type \in {"cleanup_download", "cleanup_saved"}
                 => entry.result = "ok"
      ]_vars

\* The cleanup_download compensation was recorded as successful although
\* the input file could not be removed, and a call with a list of paths
\* then removed one file and failed on the other.
C38_Witness ==
    /\ \E i \in 1..Len(comp_calls) :
          /\ comp_calls[i].type = "cleanup_download"
          /\ comp_calls[i].result = "ok"
          /\ comp_calls[i].data \in DOMAIN files
    /\ Len(invoked) = 1
    /\ invoked[1].result.success
    /\ invoked[1].result.total_cleaned = 1
    /\ invoked[1].result.failed_files # <<>>

====================================================================
